---- MODULE Spec2Model ----
(***************************************************************************)
(* Draw-command injection and buffer arenas of game/src/bw_scr:            *)
(* draw_inject.rs (add_overlays, draw_egui_mesh, the vertex/index arena    *)
(* allocator, the texture cache) and bw_vector.rs (bw_vector_push).        *)
(*                                                                         *)
(* Byte offsets, element counts and handles are natural numbers.  The host *)
(* (the renderer that owns the buffers, the command list and the native    *)
(* textures) is the environment: what it hands over at the start of a      *)
(* frame and what its texture entry points return is chosen with \E.       *)
(***************************************************************************)
EXTENDS Integers, Sequences, FiniteSets, TLC

----------------------------------------------------------------------------
(* Bounds of the model *)

\* host's initial vertex buffer capacity, in 32-bit words
InitVertexCapU32s == 32
\* host's initial index buffer capacity, in 16-bit words
InitIndexCapU16s == 6
\* length of the host's fixed draw command array
CommandsLen == 2
\* host's initial capacity of the draw sort vector
InitSortCap == 1
\* largest vertex count and index count of a mesh that is not split
MaxVerts == 5
MaxIdx == 7
\* most primitives, texture set entries and texture free entries of one frame
MaxPrims == 2
MaxSet == 2
MaxFree == 1
\* largest element count of a direct allocate call, and the most direct
\* calls between two resets by the host
MaxAllocCount == 5
MaxAllocs == 2
\* largest window side and smallest surface side the overlay is given, and
\* the most events queued between two UI steps
MaxWindow == 5
MaxScreen == 3
MaxEvents == 1

----------------------------------------------------------------------------
(* Program constants *)

\* floats_per_vertex passed by draw_egui_mesh_main
FloatsPerVertex == 8
\* N of the [f32; 5] that set_map writes per vertex
ColoredVertexFloats == 5
\* layer of every overlay draw command
OverlayLayer == 23
\* vertex count from which a mesh is split
SplitLimit == 65536
\* 2^16: modulus of u16 and of the halves of a u32
U16 == 65536
\* the null texture pointer
NullTexture == 0
\* both sides of the window and of the surface in OverlayState::new
InitWindowSize == 100
\* first WM_CHAR code that is swallowed without a Text event
AsciiEnd == 128
\* content of a buffer slot nothing has written yet
Uninit == -1

\* texture ids egui hands out and native handles the host hands out
TextureIds == {1, 2}
Handles == {1, 2, 3}

Max(a, b) == IF a >= b THEN a ELSE b

----------------------------------------------------------------------------
(* u32 arithmetic on <<high half, low half>> pairs *)

ToU32(n) == <<(n \div U16) % U16, n % U16>>
FromU32(w) == w[1] * U16 + w[2]
wrapping_sub1(w) ==
    IF w[2] > 0 THEN <<w[1], w[2] - 1>>
    ELSE <<(w[1] + U16 - 1) % U16, U16 - 1>>
wrapping_add1(w) ==
    IF w[2] < U16 - 1 THEN <<w[1], w[2] + 1>>
    ELSE <<(w[1] + 1) % U16, 0>>
or3(w) == <<w[1], (w[2] - (w[2] % 4)) + 3>>

align4_round_down(val) == val - (val % 4)
align4(val) == FromU32(wrapping_add1(or3(wrapping_sub1(ToU32(val)))))

align6(val) ==
    LET rem == val % 6
    IN IF rem = 0 THEN val ELSE val + (6 - rem)

to_u16(index) == index % U16

----------------------------------------------------------------------------
(* f32 arithmetic.  A value is [s, m, e]: (-1)^s * m * 2^e with
   2^23 <= m < 2^24, or m = 0 for zero (kept as +0).  Each operation rounds
   its exact result to nearest, ties to even.  Infinities, NaN and
   subnormals are out of the range the overlay's coordinates reach. *)

Pow2(n) == 2 ^ n

F32Zero == [s |-> 0, m |-> 0, e |-> 0]

\* mantissa bits below the 24 kept: M is the exact magnitude, cut; sticky
\* tells that the cut part was not 0
RECURSIVE f32_round(_, _, _, _)
f32_round(s, M, e, sticky) ==
    IF M = 0 THEN F32Zero
    ELSE IF M < Pow2(12) THEN f32_round(s, M * Pow2(12), e - 12, sticky)
    ELSE IF M < Pow2(20) THEN f32_round(s, M * Pow2(4), e - 4, sticky)
    ELSE IF M < Pow2(23) THEN f32_round(s, 2 * M, e - 1, sticky)
    ELSE IF M < Pow2(24) THEN [s |-> s, m |-> M, e |-> e]
    ELSE IF M >= Pow2(25)
         THEN f32_round(s, M \div 2, e + 1, sticky \/ M % 2 = 1)
    ELSE LET q == M \div 2
             up == M % 2 = 1 /\ (sticky \/ q % 2 = 1)
             r == IF up THEN q + 1 ELSE q
         IN IF r = Pow2(24)
            THEN [s |-> s, m |-> Pow2(23), e |-> e + 2]
            ELSE [s |-> s, m |-> r, e |-> e + 1]

\* `n as f32` for an integer n
f32_from_int(n) ==
    IF n < 0 THEN f32_round(1, 0 - n, 0, FALSE) ELSE f32_round(0, n, 0, FALSE)

f32_neg(a) == IF a.m = 0 THEN a ELSE [a EXCEPT !.s = 1 - a.s]
f32_abs(a) == [a EXCEPT !.s = 0]

\* |a| < |b|
f32_mag_lt(a, b) ==
    IF a.m = 0 THEN b.m # 0
    ELSE IF b.m = 0 THEN FALSE
    ELSE a.e < b.e \/ (a.e = b.e /\ a.m < b.m)

f32_lt(a, b) ==
    IF a.s = 1 /\ b.s = 0 THEN a.m # 0 \/ b.m # 0
    ELSE IF a.s = 0 /\ b.s = 1 THEN FALSE
    ELSE IF a.s = 0 THEN f32_mag_lt(a, b)
    ELSE f32_mag_lt(b, a)

f32_le(a, b) == ~f32_lt(b, a)

f32_mul(a, b) ==
    IF a.m = 0 \/ b.m = 0 THEN F32Zero
    ELSE LET ah == a.m \div 4096
             al == a.m % 4096
             bh == b.m \div 4096
             bl == b.m % 4096
             mid == ah * bl + al * bh
             low == (mid % 4096) * 4096 + al * bl
             lo == low % Pow2(24)
             hi == ah * bh + mid \div 4096 + low \div Pow2(24)
         IN f32_round((a.s + b.s) % 2,
                      hi * 64 + lo \div Pow2(18),
                      a.e + b.e + 18,
                      lo % Pow2(18) # 0)

\* n more quotient bits of a long division by d: qr is the quotient and
\* the remainder so far
f32_div_bits(qr, d, n) ==
    [q |-> qr.q * Pow2(n) + (qr.r * Pow2(n)) \div d,
     r |-> (qr.r * Pow2(n)) % d]

\* a / b, b not 0: 26 quotient bits and whether a remainder is left
f32_div(a, b) ==
    IF a.m = 0 THEN F32Zero
    ELSE LET q0 == [q |-> a.m \div b.m, r |-> a.m % b.m]
             q7 == f32_div_bits(q0, b.m, 7)
             q14 == f32_div_bits(q7, b.m, 7)
             q20 == f32_div_bits(q14, b.m, 6)
             q26 == f32_div_bits(q20, b.m, 6)
         IN f32_round((a.s + b.s) % 2, q26.q, a.e - b.e - 26, q26.r # 0)

f32_add(a, b) ==
    IF a.m = 0 THEN b
    ELSE IF b.m = 0 THEN a
    ELSE LET big == IF f32_mag_lt(a, b) THEN b ELSE a
             small == IF f32_mag_lt(a, b) THEN a ELSE b
             d == big.e - small.e
             A == big.m * 64
             B == IF d > 30 THEN 0 ELSE (small.m * 64) \div Pow2(d)
             sticky == IF d > 30 THEN TRUE ELSE (small.m * 64) % Pow2(d) # 0
         IN IF big.s = small.s
            THEN f32_round(big.s, A + B, big.e - 6, sticky)
            ELSE IF sticky
                 THEN f32_round(big.s, A - B - 1, big.e - 6, TRUE)
                 ELSE f32_round(big.s, A - B, big.e - 6, FALSE)

f32_sub(a, b) == f32_add(a, f32_neg(b))

F32One == f32_from_int(1)

\* x.recip()
f32_recip(a) == f32_div(F32One, a)

----------------------------------------------------------------------------
VARIABLES
    pc,            \* where add_overlays is: "idle", "set", "draw", "free", "panicked"
    vertex_buf,    \* scr::VertexBuffer: both arenas
    commands,      \* scr::DrawCommands: command array, count, sort vector
    textures,      \* RenderState::textures: texture id -> native handle
    host_textures, \* native textures created and not yet deleted
    host_calls,    \* host texture entry points called by the last step
    double_delete, \* delete_texture was called on a handle that is not live
    warned,        \* warn_once sites that have fired
    frame,         \* entries of the current frame processed so far
    overlay,       \* OverlayState: window and surface size, captured buttons
    last           \* what the last step did

vars == <<pc, vertex_buf, commands, textures, host_textures, host_calls,
          double_delete, warned, frame, overlay, last>>

----------------------------------------------------------------------------
(* Arena allocator *)

vertex_buf_capacity_bytes(vb) == vb.buffer_size_u32s * 4
index_buf_capacity_bytes(vb) == vb.index_buf_size_u16s * 2

\* bw_vector_reserve keeps the elements; the slots added by the following
\* `length = new_capacity` hold whatever the new storage holds
bw_vector_reserve(data, capacity) == data
set_length(data, length) ==
    [k \in 1..length |-> IF k <= Len(data) THEN data[k] ELSE Uninit]

vertex_buf_grow_linear(vb) ==
    [vb EXCEPT !.buffer_size_u32s = vb.buffer_size_u32s + InitVertexCapU32s,
               !.heap_allocated = 1]
vertex_buf_grow(vb) ==
    [vb EXCEPT !.buffer_size_u32s = vb.buffer_size_u32s * 2,
               !.heap_allocated = 1]

index_buf_grow_no_flag(vb) ==
    LET new_capacity == vb.index_buf_size_u16s * 2
    IN [vb EXCEPT !.index_buf_size_u16s = new_capacity,
                  !.index_buffer =
                      set_length(bw_vector_reserve(vb.index_buffer, new_capacity),
                                 new_capacity)]
index_buf_grow(vb) ==
    LET new_capacity == vb.index_buf_size_u16s * 2
    IN [vb EXCEPT !.index_buf_size_u16s = new_capacity,
                  !.index_buf_heap_allocated = 1,
                  !.index_buffer =
                      set_length(bw_vector_reserve(vb.index_buffer, new_capacity),
                                 new_capacity)]

RECURSIVE vertex_grow_loop(_, _)
vertex_grow_loop(vb, end_offset) ==
    IF end_offset > vertex_buf_capacity_bytes(vb)
    THEN vertex_grow_loop(vertex_buf_grow(vb), end_offset)
    ELSE vb

RECURSIVE index_grow_loop(_, _)
index_grow_loop(vb, end_offset) ==
    IF end_offset > index_buf_capacity_bytes(vb)
    THEN index_grow_loop(index_buf_grow(vb), end_offset)
    ELSE vb

NoAlloc == [byte_offset |-> 0, length |-> 0]

allocate_vertices_unscaled(vb, floats_per_vertex, vertex_count) ==
    LET float_count == vertex_count * floats_per_vertex
        start_offset == vb.allocated_size_bytes
        end_offset == start_offset + float_count
    IN IF start_offset % 4 # 0
       THEN [panicked |-> TRUE, vb |-> vb, alloc |-> NoAlloc]
       ELSE [panicked |-> FALSE,
             vb |-> [vertex_grow_loop(vb, end_offset)
                         EXCEPT !.allocated_size_bytes = end_offset],
             alloc |-> [byte_offset |-> start_offset, length |-> float_count]]
allocate_vertices(vb, floats_per_vertex, vertex_count) ==
    LET float_count == vertex_count * floats_per_vertex
        start_offset == vb.allocated_size_bytes
        end_offset == start_offset + float_count * 4
    IN IF start_offset % 4 # 0
       THEN [panicked |-> TRUE, vb |-> vb, alloc |-> NoAlloc]
       ELSE [panicked |-> FALSE,
             vb |-> [vertex_grow_loop(vb, end_offset)
                         EXCEPT !.allocated_size_bytes = end_offset],
             alloc |-> [byte_offset |-> start_offset, length |-> float_count]]

allocate_indices_end_offset(vb, count) ==
    LET start_offset == vb.index_buffer_allocated_bytes
        end_offset == start_offset + count * 2
    IN IF start_offset % 2 # 0
       THEN [panicked |-> TRUE, vb |-> vb, alloc |-> NoAlloc]
       ELSE [panicked |-> FALSE,
             vb |-> [index_grow_loop(vb, end_offset)
                         EXCEPT !.index_buffer_allocated_bytes = end_offset],
             alloc |-> [byte_offset |-> end_offset, length |-> count]]
allocate_indices_no_commit(vb, count) ==
    LET start_offset == vb.index_buffer_allocated_bytes
        end_offset == start_offset + count * 2
    IN IF start_offset % 2 # 0
       THEN [panicked |-> TRUE, vb |-> vb, alloc |-> NoAlloc]
       ELSE [panicked |-> FALSE,
             vb |-> index_grow_loop(vb, end_offset),
             alloc |-> [byte_offset |-> start_offset, length |-> count]]
allocate_indices(vb, count) ==
    LET start_offset == vb.index_buffer_allocated_bytes
        end_offset == start_offset + count * 2
    IN IF start_offset % 2 # 0
       THEN [panicked |-> TRUE, vb |-> vb, alloc |-> NoAlloc]
       ELSE [panicked |-> FALSE,
             vb |-> [index_grow_loop(vb, end_offset)
                         EXCEPT !.index_buffer_allocated_bytes = end_offset],
             alloc |-> [byte_offset |-> start_offset, length |-> count]]

----------------------------------------------------------------------------
(* VertexBufferAlloc<u16> over the index arena *)

\* 0-based position inside the view `alloc` of the 1-based buffer slot k
view_pos(alloc, k) == (k - 1) - (alloc.byte_offset \div 2)

\* assert!(amount * N <= self.length)
set_map_fits(alloc, amount, N) == amount * N <= alloc.length

set_map(data, alloc, values) ==
    [k \in 1..Len(data) |->
        IF view_pos(alloc, k) >= 0 /\ view_pos(alloc, k) < Len(values)
        THEN values[view_pos(alloc, k) + 1]
        ELSE data[k]]

zero_after_skip(data, alloc, pos) == data
zero_after(data, alloc, pos) ==
    [k \in 1..Len(data) |->
        IF view_pos(alloc, k) >= pos /\ view_pos(alloc, k) < alloc.length
        THEN 0
        ELSE data[k]]

----------------------------------------------------------------------------
(* Draw sort vector and draw command slots *)

bw_vector_push_front(vec, value) ==
    LET length == vec.length
        capacity == IF length >= vec.capacity THEN vec.capacity * 2
                    ELSE vec.capacity
    IN [data |-> <<value>> \o SubSeq(vec.data, 1, length),
        length |-> length + 1,
        capacity |-> capacity]
bw_vector_push(vec, value) ==
    LET length == vec.length
        grown == length >= vec.capacity
        capacity == IF grown THEN vec.capacity * 2 ELSE vec.capacity
        \* copy_nonoverlapping(old_ptr, new_ptr, length)
        kept == IF grown THEN SubSeq(vec.data, 1, length) ELSE vec.data
    IN [data |-> [k \in 1..(length + 1) |->
                     IF k <= length THEN kept[k] ELSE value],
        length |-> length + 1,
        capacity |-> capacity]

new_draw_command_push_first(cmds, layer) ==
    LET index == cmds.draw_command_count
        draw_sort == cmds.draw_sort_vector
        pushed == bw_vector_push(draw_sort,
                      [layer |-> layer, index |-> draw_sort.length % U16,
                       command |-> index + 1])
    IN IF index >= Len(cmds.commands)
       THEN [some |-> FALSE, command |-> 0,
             cmds |-> [cmds EXCEPT !.draw_sort_vector = pushed]]
       ELSE [some |-> TRUE, command |-> index + 1,
             cmds |-> [cmds EXCEPT !.draw_command_count = (index % U16) + 1,
                                   !.draw_sort_vector = pushed]]
\* `command` is the 1-based slot of the command array the pointer refers to
new_draw_command_keep_count(cmds, layer) ==
    LET index == cmds.draw_command_count
        draw_sort == cmds.draw_sort_vector
    IN IF index >= Len(cmds.commands)
       THEN [some |-> FALSE, command |-> 0, cmds |-> cmds]
       ELSE [some |-> TRUE, command |-> index + 1,
             cmds |-> [cmds EXCEPT
                 !.draw_sort_vector =
                     bw_vector_push(draw_sort,
                         [layer |-> layer,
                          index |-> draw_sort.length % U16,
                          command |-> index + 1])]]
new_draw_command(cmds, layer) ==
    LET index == cmds.draw_command_count
        draw_sort == cmds.draw_sort_vector
    IN IF index >= Len(cmds.commands)
       THEN [some |-> FALSE, command |-> 0, cmds |-> cmds]
       ELSE [some |-> TRUE, command |-> index + 1,
             cmds |-> [cmds EXCEPT
                 !.draw_command_count = (index % U16) + 1,
                 !.draw_sort_vector =
                     bw_vector_push(draw_sort,
                         [layer |-> layer,
                          index |-> draw_sort.length % U16,
                          command |-> index + 1])]]

\* the fields of scr::DrawCommand the overlay sets per mesh
DrawCommand(texture, vertex_alloc, index_alloc, vertex_count) ==
    [draw_mode |-> 1,
     shader_id |-> 4,
     texture0 |-> texture,
     vertex_buffer_offset_bytes |-> vertex_alloc.byte_offset,
     index_buffer_offset_bytes |-> index_alloc.byte_offset,
     allocated_vertex_count |-> vertex_count,
     used_vertex_count |-> vertex_count]

\* a slot of the command array the overlay has not written
HostCommand ==
    [draw_mode |-> 0, shader_id |-> 0, texture0 |-> NullTexture,
     vertex_buffer_offset_bytes |-> 0, index_buffer_offset_bytes |-> 0,
     allocated_vertex_count |-> 0, used_vertex_count |-> 0]

----------------------------------------------------------------------------
(* Command emitter *)

quad_count(vertices_len, indices_len) ==
    Max(align4(vertices_len) \div 4, align6(indices_len) \div 6)

\* bw = [vertex_buf, commands]; the result carries the new bw, the Result and
\* a record of what was allocated
draw_egui_mesh_main(layer, indices, vertices_len, texture, bw) ==
    LET vertex_count == quad_count(vertices_len, Len(indices)) * 4
        index_count == quad_count(vertices_len, Len(indices)) * 6
        va == allocate_vertices(bw.vertex_buf, FloatsPerVertex, vertex_count)
        ia == allocate_indices(va.vb, index_count)
        written == zero_after(
                       set_map(ia.vb.index_buffer, ia.alloc,
                               [k \in 1..Len(indices) |-> to_u16(indices[k])]),
                       ia.alloc, Len(indices))
        vb == [ia.vb EXCEPT !.index_buffer = written]
        nc == new_draw_command(bw.commands, layer)
        what(result, command) ==
            [result |-> result, command |-> command,
             vertices_len |-> vertices_len, indices |-> indices,
             vertex_count |-> vertex_count, index_count |-> index_count,
             vertex_alloc |-> va.alloc, index_alloc |-> ia.alloc]
    IN IF va.panicked
       THEN [panicked |-> TRUE, result |-> "panic", bw |-> bw, emits |-> <<>>]
       ELSE IF ia.panicked
       THEN [panicked |-> TRUE, result |-> "panic",
             bw |-> [bw EXCEPT !.vertex_buf = va.vb], emits |-> <<>>]
       ELSE IF ~set_map_fits(va.alloc, vertices_len, ColoredVertexFloats)
               \/ ~set_map_fits(ia.alloc, Len(indices), 1)
       THEN [panicked |-> TRUE, result |-> "panic",
             bw |-> [bw EXCEPT !.vertex_buf = ia.vb], emits |-> <<>>]
       ELSE IF ~nc.some
       THEN [panicked |-> FALSE, result |-> "OutOfDrawCommands",
             bw |-> [vertex_buf |-> vb, commands |-> nc.cmds],
             emits |-> <<what("OutOfDrawCommands", 0)>>]
       ELSE [panicked |-> FALSE, result |-> "Ok",
             bw |-> [vertex_buf |-> vb,
                     commands |-> [nc.cmds EXCEPT !.commands[nc.command] =
                         DrawCommand(texture, va.alloc, ia.alloc, vertex_count)]],
             emits |-> <<what("Ok", nc.command)>>]

\* for mesh in mesh.split_to_u16() { draw_egui_mesh_main(..)?; }
RECURSIVE draw_split_loop_keep_going(_, _, _, _, _)
draw_split_loop_keep_going(layer, parts, texture, bw, emits) ==
    IF parts = <<>>
    THEN [panicked |-> FALSE, result |-> "Ok", bw |-> bw, emits |-> emits]
    ELSE LET r == draw_egui_mesh_main(layer, Head(parts).indices,
                                      Head(parts).vertices_len, texture, bw)
             rest == draw_split_loop_keep_going(layer, Tail(parts), texture,
                                                r.bw, emits \o r.emits)
         IN IF r.panicked
            THEN [r EXCEPT !.emits = emits \o r.emits]
            ELSE IF r.result # "Ok" /\ ~rest.panicked
            THEN [rest EXCEPT !.result = r.result]
            ELSE rest
RECURSIVE draw_split_loop(_, _, _, _, _)
draw_split_loop(layer, parts, texture, bw, emits) ==
    IF parts = <<>>
    THEN [panicked |-> FALSE, result |-> "Ok", bw |-> bw, emits |-> emits]
    ELSE LET r == draw_egui_mesh_main(layer, Head(parts).indices,
                                      Head(parts).vertices_len, texture, bw)
         IN IF r.panicked \/ r.result # "Ok"
            THEN [r EXCEPT !.emits = emits \o r.emits]
            ELSE draw_split_loop(layer, Tail(parts), texture, r.bw,
                                 emits \o r.emits)

\* mesh = [texture_id, vertices_len, indices, parts]: `parts` is what
\* mesh.split_to_u16() yields and is read only from SplitLimit vertices on
draw_egui_mesh_allocate_first(layer, state_textures, mesh, bw) ==
    LET r == draw_egui_mesh_main(layer, mesh.indices, mesh.vertices_len,
                                 NullTexture, bw)
    IN IF mesh.texture_id \notin DOMAIN state_textures
       THEN [panicked |-> r.panicked, result |-> "InvalidTexture",
             bw |-> r.bw, emits |-> <<>>]
       ELSE IF mesh.vertices_len < SplitLimit
       THEN draw_egui_mesh_main(layer, mesh.indices, mesh.vertices_len,
                                state_textures[mesh.texture_id], bw)
       ELSE draw_split_loop(layer, mesh.parts,
                            state_textures[mesh.texture_id], bw, <<>>)
draw_egui_mesh(layer, state_textures, mesh, bw) ==
    IF mesh.texture_id \notin DOMAIN state_textures
    THEN [panicked |-> FALSE, result |-> "InvalidTexture", bw |-> bw,
          emits |-> <<>>]
    ELSE IF mesh.vertices_len < SplitLimit
    THEN draw_egui_mesh_main(layer, mesh.indices, mesh.vertices_len,
                             state_textures[mesh.texture_id], bw)
    ELSE draw_split_loop(layer, mesh.parts,
                         state_textures[mesh.texture_id], bw, <<>>)

----------------------------------------------------------------------------
(* Texture cache.  A cache state is [textures, host_textures, host_calls,   *)
(* double_delete, warned]: the map, and what the host has seen.             *)

\* impl Drop for OwnedBwTexture: delete_texture on the handle
drop_texture(ts, texture) ==
    [ts EXCEPT !.host_textures = ts.host_textures \ {texture},
               !.host_calls = ts.host_calls \cup {<<"delete_texture", texture>>},
               !.double_delete = ts.double_delete
                                     \/ texture \notin ts.host_textures]

\* egui_image_data_to_rgba: four bytes for every pixel of the image
egui_image_data_to_rgba(pixels_len) == 4 * pixels_len

\* state.textures.insert(id, texture): the value it replaces is dropped
textures_insert_forget_old(ts, id, texture) ==
    [ts EXCEPT !.textures =
        [i \in DOMAIN ts.textures \cup {id} |->
            IF i = id THEN texture ELSE ts.textures[i]]]
textures_insert(ts, id, texture) ==
    LET put == [ts EXCEPT !.textures =
                   [i \in DOMAIN ts.textures \cup {id} |->
                       IF i = id THEN texture ELSE ts.textures[i]]]
    IN IF id \in DOMAIN ts.textures
       THEN drop_texture(put, ts.textures[id])
       ELSE put

\* OwnedBwTexture::new_rgba; created is what create_texture returns if called
new_rgba_unchecked(ts, size, data_len, created) ==
    LET called ==
            [ts EXCEPT !.host_calls = ts.host_calls \cup {<<"create_texture", created>>},
                       !.host_textures =
                           IF created = NullTexture THEN ts.host_textures
                           ELSE ts.host_textures \cup {created}]
    IN [some |-> created # NullTexture, texture |-> created, ts |-> called]
new_rgba_null_is_some(ts, size, data_len, created) ==
    IF data_len # 4 * (size[1] * size[2])
    THEN [some |-> FALSE, texture |-> NullTexture, ts |-> ts]
    ELSE [some |-> TRUE, texture |-> created,
          ts |-> [ts EXCEPT !.host_calls = ts.host_calls \cup {<<"create_texture", created>>},
                            !.host_textures =
                                IF created = NullTexture THEN ts.host_textures
                                ELSE ts.host_textures \cup {created}]]
new_rgba(ts, size, data_len, created) ==
    IF data_len # 4 * (size[1] * size[2])
    THEN [some |-> FALSE, texture |-> NullTexture, ts |-> ts]
    ELSE LET called ==
                 [ts EXCEPT !.host_calls = ts.host_calls \cup {<<"create_texture", created>>},
                            !.host_textures =
                                IF created = NullTexture THEN ts.host_textures
                                ELSE ts.host_textures \cup {created}]
         IN [some |-> created # NullTexture, texture |-> created, ts |-> called]

\* warn! and error!: one report written for the site, every time
log(ts, site) == [ts EXCEPT !.logs = Append(ts.logs, site)]

\* OwnedBwTexture::update
update(ts, texture, data_len, size) ==
    IF data_len # 4 * (size[1] * size[2])
    THEN log(ts, "invalid_update")
    ELSE [ts EXCEPT !.host_calls = ts.host_calls \cup {<<"update_texture", texture>>}]

\* warn_once!: the site's Once runs warn! on the first call only
warn_once(ts, site) ==
    IF site \in ts.warned
    THEN ts
    ELSE log([ts EXCEPT !.warned = ts.warned \cup {site}], site)

\* one iteration of the loop of update_textures over delta.set;
\* entry = [id, has_pos, size, pixels_len]
update_textures_create_on_missing(ts, entry, created) ==
    LET rgba_len == egui_image_data_to_rgba(entry.pixels_len)
        made == new_rgba(ts, entry.size, rgba_len, created)
    IN IF entry.has_pos /\ entry.id \in DOMAIN ts.textures
       THEN update(ts, ts.textures[entry.id], rgba_len, entry.size)
       ELSE IF made.some
            THEN textures_insert(made.ts, entry.id, made.texture)
            ELSE made.ts
update_textures(ts, entry, created) ==
    LET rgba_len == egui_image_data_to_rgba(entry.pixels_len)
        made == new_rgba(ts, entry.size, rgba_len, created)
    IN IF entry.has_pos
       THEN IF entry.id \in DOMAIN ts.textures
            THEN update(ts, ts.textures[entry.id], rgba_len, entry.size)
            ELSE warn_once(ts, "update_nonexistent")
       ELSE IF made.some
            THEN textures_insert(made.ts, entry.id, made.texture)
            ELSE log(made.ts, "create_failed")

\* one iteration of the loop of free_textures over delta.free
free_textures_no_release(ts, id) ==
    [ts EXCEPT !.textures =
        [i \in DOMAIN ts.textures \ {id} |-> ts.textures[i]]]
free_textures(ts, id) ==
    IF id \in DOMAIN ts.textures
    THEN drop_texture(
             [ts EXCEPT !.textures =
                 [i \in DOMAIN ts.textures \ {id} |-> ts.textures[i]]],
             ts.textures[id])
    ELSE ts

----------------------------------------------------------------------------
(* Inputs *)

\* a valid index list of i indices into v vertices
IndexList(v, i) == [k \in 1..i |-> k % Max(v, 1)]

Mesh(t, v, i) ==
    [texture_id |-> t, vertices_len |-> v, indices |-> IndexList(v, i),
     parts |-> <<>>]

\* a mesh of SplitLimit vertices, given by the sub-meshes split_to_u16 yields
SplitMesh(t, ps) ==
    [texture_id |-> t, vertices_len |-> SplitLimit, indices |-> <<>>,
     parts |-> ps]

\* sub-meshes of a split: whole triangles over at least one vertex
PartShapes ==
    {[vertices_len |-> 3, indices |-> IndexList(3, 3)],
     [vertices_len |-> MaxVerts, indices |-> IndexList(MaxVerts, 6)]}

\* every mesh shape within the bounds
Meshes ==
    {Mesh(t, v, i) : t \in TextureIds, v \in 0..MaxVerts, i \in 0..MaxIdx}
    \cup
    {SplitMesh(t, ps) : t \in TextureIds,
                        ps \in [{1} -> PartShapes] \cup [{1, 2} -> PartShapes]}

\* the meshes of the frames that also change textures
FrameMeshes ==
    {Mesh(t, 3, 3) : t \in TextureIds}

SetEntries ==
    {[id |-> t, has_pos |-> p, size |-> <<2, 1>>, pixels_len |-> n] :
        t \in TextureIds, p \in BOOLEAN, n \in {2, 3}}

\* what the host has allocated for its own commands when the overlay runs
HostVertexBytes == 4 * 5
HostIndexBytes == 2 * 3

----------------------------------------------------------------------------
(* OverlayState of draw_overlay.rs: window messages and the UI step *)

WM_SIZE == "WM_SIZE"
WM_MOUSEMOVE == "WM_MOUSEMOVE"
WM_LBUTTONDOWN == "WM_LBUTTONDOWN"
WM_LBUTTONUP == "WM_LBUTTONUP"
WM_RBUTTONDOWN == "WM_RBUTTONDOWN"
WM_RBUTTONUP == "WM_RBUTTONUP"
WM_MOUSEWHEEL == "WM_MOUSEWHEEL"
WM_KEYDOWN == "WM_KEYDOWN"
WM_KEYUP == "WM_KEYUP"
WM_CHAR == "WM_CHAR"
WM_PAINT == "WM_PAINT"

\* `word as i16` of a 16-bit half of lparam
to_i16(word) == IF word >= U16 \div 2 THEN word - U16 ELSE word

\* 0.001 and 0.5 as f32
F32Milli == [s |-> 0, m |-> 8589935, e |-> 0 - 33]
F32Half == [s |-> 0, m |-> Pow2(23), e |-> 0 - 24]

\* OverlayState::new; recent_down is not in the code: for each button,
\* what became of its most recent down message ("captured" or "passed" on
\* to the game), "released" once the up message of a captured one came
InitOverlay ==
    [window_size |-> <<InitWindowSize, InitWindowSize>>,
     screen_size |-> <<InitWindowSize, InitWindowSize>>,
     captured_mouse_down |-> <<FALSE, FALSE>>,
     ui_rects |-> <<>>,
     events |-> <<>>,
     recent_down |-> <<"none", "none">>]

\* egui::Rect::contains
Rect_contains(rect, pos) ==
    /\ f32_le(rect.min[1], pos[1])
    /\ f32_le(pos[1], rect.max[1])
    /\ f32_le(rect.min[2], pos[2])
    /\ f32_le(pos[2], rect.max[2])

\* a variant that scales by the window where the code scales by the surface
window_pos_to_egui_unscaled(self, x, y) ==
    LET window_w == f32_from_int(self.window_size[1])
        window_h == f32_from_int(self.window_size[2])
    IN <<f32_mul(f32_div(f32_from_int(x), window_w), window_w),
         f32_mul(f32_div(f32_from_int(y), window_h), window_h)>>

window_pos_to_egui(self, x, y) ==
    LET window_w == f32_from_int(self.window_size[1])
        window_h == f32_from_int(self.window_size[2])
        screen_w == f32_from_int(self.screen_size[1])
        screen_h == f32_from_int(self.screen_size[2])
        screen_window_ratio ==
            f32_div(f32_div(screen_w, screen_h), f32_div(window_w, window_h))
        plain_x == f32_mul(f32_div(f32_from_int(x), window_w), screen_w)
        plain_y == f32_mul(f32_div(f32_from_int(y), window_h), screen_h)
    IN IF f32_lt(f32_abs(f32_sub(screen_window_ratio, F32One)), F32Milli)
       THEN <<plain_x, plain_y>>
       ELSE IF f32_lt(screen_window_ratio, F32One)
       THEN LET x_offset ==
                    f32_mul(f32_mul(window_w,
                                    f32_sub(F32One, screen_window_ratio)),
                            F32Half)
                x_div == f32_mul(window_w, screen_window_ratio)
            IN <<f32_mul(f32_div(f32_sub(f32_from_int(x), x_offset), x_div),
                         screen_w),
                 plain_y>>
       ELSE LET ratio == f32_recip(screen_window_ratio)
                y_offset ==
                    f32_mul(f32_mul(window_h, f32_sub(F32One, ratio)),
                            F32Half)
                y_div == f32_mul(window_h, ratio)
            IN <<plain_x,
                 f32_mul(f32_div(f32_sub(f32_from_int(y), y_offset), y_div),
                         screen_h)>>

\* RenderTarget::new
RenderTarget_new(width, height) ==
    [width |-> width,
     height |-> height,
     w_recip |-> f32_div(F32One, f32_from_int(width)),
     h_recip |-> f32_div(F32One, f32_from_int(height))]

\* the pos of the ColoredVertex that egui_vertex_to_colored_vertex makes
egui_vertex_to_colored_vertex(target, pos) ==
    <<f32_mul(pos[1], target.w_recip),
      f32_sub(F32One, f32_mul(pos[2], target.h_recip))>>

\* egui::Event, all variants in one shape
Event(kind, pos, button, pressed) ==
    [kind |-> kind, pos |-> pos, button |-> button, pressed |-> pressed]

NoPos == <<F32Zero, F32Zero>>

any_contains(ui_rects, pos) ==
    \E k \in 1..Len(ui_rects) : Rect_contains(ui_rects[k], pos)

\* a variant of the WM_SIZE arm without the w != 0 && h != 0 test
wm_size_no_zero_test(self, lo, hi) ==
    IF to_i16(lo) >= 0 /\ to_i16(hi) >= 0
    THEN [self EXCEPT !.window_size = <<to_i16(lo), to_i16(hi)>>]
    ELSE self

\* the WM_SIZE arm of window_proc
wm_size(self, lo, hi) ==
    LET w == to_i16(lo)
        h == to_i16(hi)
    IN IF w >= 0 /\ h >= 0 /\ w # 0 /\ h # 0
       THEN [self EXCEPT !.window_size = <<w, h>>]
       ELSE self

\* the mouse button arm of window_proc
wm_button(self, msg, lo, hi) ==
    LET button_idx == IF msg \in {WM_LBUTTONUP, WM_LBUTTONDOWN} THEN 1 ELSE 2
        pressed == msg \in {WM_LBUTTONDOWN, WM_RBUTTONDOWN}
        pos == window_pos_to_egui(self, to_i16(lo), to_i16(hi))
        handle == IF pressed
                  THEN any_contains(self.ui_rects, pos)
                  ELSE self.captured_mouse_down[button_idx]
        seen == IF pressed
                THEN [self EXCEPT !.recent_down[button_idx] =
                          IF handle THEN "captured" ELSE "passed"]
                ELSE self
    IN IF ~handle
       THEN [self |-> seen, ret |-> "None"]
       ELSE [self |-> [seen EXCEPT
                          !.captured_mouse_down[button_idx] = pressed,
                          !.recent_down[button_idx] =
                              IF pressed THEN "captured" ELSE "released",
                          !.events = Append(self.events,
                              Event("PointerButton", pos, button_idx,
                                    pressed))],
             ret |-> "Some(0)"]

\* window_proc; origin is where ScreenToClient finds the client area,
\* wants_keyboard_input and key are what egui and vkey_to_egui_key answer
window_proc(self, msg, wparam, lo, hi, origin, wants_keyboard_input, key) ==
    IF msg = WM_SIZE
    THEN [self |-> wm_size(self, lo, hi), ret |-> "None"]
    ELSE IF msg = WM_MOUSEMOVE
    THEN LET x == to_i16(lo)
             y == to_i16(hi)
             pos == window_pos_to_egui(self, x, y)
         IN [self |-> [self EXCEPT !.events = Append(self.events,
                            Event("PointerMoved", pos, 0, FALSE))],
             ret |-> "None"]
    ELSE IF msg \in {WM_LBUTTONDOWN, WM_LBUTTONUP,
                     WM_RBUTTONDOWN, WM_RBUTTONUP}
    THEN wm_button(self, msg, lo, hi)
    ELSE IF msg = WM_MOUSEWHEEL
    THEN LET pos == window_pos_to_egui(self, to_i16(lo) - origin,
                                       to_i16(hi) - origin)
         IN IF ~any_contains(self.ui_rects, pos)
            THEN [self |-> self, ret |-> "None"]
            ELSE [self |-> [self EXCEPT !.events = Append(self.events,
                               Event("Scroll", NoPos, 0, FALSE))],
                  ret |-> "Some(0)"]
    ELSE IF msg \in {WM_KEYDOWN, WM_KEYUP}
    THEN IF ~wants_keyboard_input
         THEN [self |-> self, ret |-> "None"]
         ELSE IF key
         THEN [self |-> [self EXCEPT !.events = Append(self.events,
                            Event("Key", NoPos, 0, msg = WM_KEYDOWN))],
               ret |-> "Some(0)"]
         ELSE [self |-> self, ret |-> "Some(0)"]
    ELSE IF msg = WM_CHAR
    THEN IF ~wants_keyboard_input
         THEN [self |-> self, ret |-> "None"]
         ELSE IF wparam >= AsciiEnd
         THEN [self |-> self, ret |-> "Some(0)"]
         ELSE [self |-> [self EXCEPT !.events = Append(self.events,
                            Event("Text", NoPos, 0, FALSE))],
               ret |-> "Some(0)"]
    ELSE [self |-> self, ret |-> "None"]

\* OverlayState::step: the queued events go to egui, the rectangles of
\* this frame's windows replace the old ones
step(self, screen_size, rects) ==
    [self EXCEPT !.screen_size = screen_size,
                 !.events = <<>>,
                 !.ui_rects = rects]

----------------------------------------------------------------------------
(* State *)

CacheState ==
    [textures |-> textures, host_textures |-> host_textures,
     host_calls |-> {}, double_delete |-> double_delete, warned |-> warned,
     logs |-> <<>>]

SetCache(ts) ==
    /\ textures' = ts.textures
    /\ host_textures' = ts.host_textures
    /\ host_calls' = ts.host_calls
    /\ double_delete' = ts.double_delete
    /\ warned' = ts.warned

\* what has happened since add_overlays was entered: entries taken from
\* each list, and the ids given to free_textures
NoFrame ==
    [sets |-> 0, prims |-> 0, frees |-> 0, failed |-> 0, allocs |-> 0,
     freed |-> {}]

InitVertexBuffer ==
    [allocated_size_bytes |-> 0,
     buffer_size_u32s |-> InitVertexCapU32s,
     heap_allocated |-> 0,
     index_buffer_allocated_bytes |-> 0,
     index_buf_size_u16s |-> InitIndexCapU16s,
     index_buf_heap_allocated |-> 0,
     index_buffer |-> [k \in 1..InitIndexCapU16s |-> Uninit]]

InitCommands ==
    [draw_command_count |-> 0,
     commands |-> [k \in 1..CommandsLen |-> HostCommand],
     draw_sort_vector |-> [data |-> <<>>, length |-> 0, capacity |-> InitSortCap]]

\* RenderState::new and the host's buffers before the first frame
Init ==
    /\ pc = "idle"
    /\ vertex_buf = InitVertexBuffer
    /\ commands = InitCommands
    /\ textures = [i \in {} |-> NullTexture]
    /\ host_textures = {}
    /\ host_calls = {}
    /\ double_delete = FALSE
    /\ warned = {}
    /\ frame = NoFrame
    /\ overlay = InitOverlay
    /\ last = [op |-> "none"]

----------------------------------------------------------------------------
(* add_overlays, one step per loop iteration *)

\* The host has reset the arenas and the command list, queued `level` draw
\* commands of its own and calls add_overlays
BeginFrame(level) ==
    /\ pc = "idle"
    /\ pc' = "set"
    /\ vertex_buf' =
        [vertex_buf EXCEPT
            !.allocated_size_bytes = IF level > 0 THEN HostVertexBytes ELSE 0,
            !.index_buffer_allocated_bytes = IF level > 0 THEN HostIndexBytes ELSE 0,
            !.index_buffer = [k \in 1..vertex_buf.index_buf_size_u16s |-> Uninit]]
    /\ commands' =
        [draw_command_count |-> level,
         commands |-> [k \in 1..CommandsLen |-> HostCommand],
         draw_sort_vector |->
            [data |-> [k \in 1..level |->
                          [layer |-> 0, index |-> k - 1, command |-> k]],
             length |-> level,
             capacity |-> Max(commands.draw_sort_vector.capacity, level)]]
    /\ frame' = NoFrame
    /\ host_calls' = {}
    /\ UNCHANGED overlay
    /\ last' = [op |-> "begin"]
    /\ UNCHANGED <<textures, host_textures, double_delete, warned>>

\* update_textures: the next entry of delta.set
SetTexture(entry, created) ==
    /\ pc = "set"
    /\ frame.sets < MaxSet
    /\ created \notin host_textures
    /\ SetCache(update_textures(CacheState, entry, created))
    /\ frame' = [frame EXCEPT !.sets = frame.sets + 1]
    /\ UNCHANGED overlay
    /\ last' = [op |-> "set", entry |-> entry, created |-> created]
    /\ UNCHANGED <<pc, vertex_buf, commands>>

\* delta.set is exhausted
EndSet ==
    /\ pc = "set"
    /\ pc' = "draw"
    /\ host_calls' = {}
    /\ UNCHANGED overlay
    /\ last' = [op |-> "end_set"]
    /\ UNCHANGED <<vertex_buf, commands, textures, host_textures,
                   double_delete, warned, frame>>

\* the next primitive is a mesh
DrawMeshAbortFrame(mesh) ==
    LET r == draw_egui_mesh(OverlayLayer, textures, mesh,
                            [vertex_buf |-> vertex_buf, commands |-> commands])
    IN /\ pc = "draw"
       /\ frame.prims < MaxPrims
       /\ pc' = IF r.panicked THEN "panicked"
                ELSE IF r.result # "Ok" THEN "idle" ELSE "draw"
       /\ vertex_buf' = r.bw.vertex_buf
       /\ commands' = r.bw.commands
       /\ warned' = IF r.result \in {"InvalidTexture", "OutOfDrawCommands"}
                    THEN warned \cup {"draw_mesh"} ELSE warned
       /\ frame' = [frame EXCEPT !.prims = frame.prims + 1,
                                 !.failed = IF r.result = "Ok" THEN frame.failed
                                            ELSE frame.failed + 1]
       /\ host_calls' = {}
       /\ UNCHANGED overlay
       /\ last' = [op |-> "emit", mesh |-> mesh, result |-> r.result,
                   emits |-> r.emits]
       /\ UNCHANGED <<textures, host_textures, double_delete>>
DrawMesh(mesh) ==
    LET r == draw_egui_mesh(OverlayLayer, textures, mesh,
                            [vertex_buf |-> vertex_buf, commands |-> commands])
    IN /\ pc = "draw"
       /\ frame.prims < MaxPrims
       /\ pc' = IF r.panicked THEN "panicked" ELSE "draw"
       /\ vertex_buf' = r.bw.vertex_buf
       /\ commands' = r.bw.commands
       /\ warned' = IF r.result \in {"InvalidTexture", "OutOfDrawCommands"}
                    THEN warned \cup {"draw_mesh"} ELSE warned
       /\ frame' = [frame EXCEPT !.prims = frame.prims + 1,
                                 !.failed = IF r.result = "Ok" THEN frame.failed
                                            ELSE frame.failed + 1]
       /\ host_calls' = {}
       /\ UNCHANGED overlay
       /\ last' = [op |-> "emit", mesh |-> mesh, result |-> r.result,
                   emits |-> r.emits]
       /\ UNCHANGED <<textures, host_textures, double_delete>>

\* the next primitive is a paint callback
DrawCallback ==
    /\ pc = "draw"
    /\ frame.prims < MaxPrims
    /\ warned' = warned \cup {"paint_callback"}
    /\ frame' = [frame EXCEPT !.prims = frame.prims + 1]
    /\ host_calls' = {}
    /\ UNCHANGED overlay
    /\ last' = [op |-> "callback"]
    /\ UNCHANGED <<pc, vertex_buf, commands, textures, host_textures,
                   double_delete>>

\* the primitives are exhausted
EndDraw ==
    /\ pc = "draw"
    /\ pc' = "free"
    /\ host_calls' = {}
    /\ UNCHANGED overlay
    /\ last' = [op |-> "end_draw"]
    /\ UNCHANGED <<vertex_buf, commands, textures, host_textures,
                   double_delete, warned, frame>>

\* free_textures: the next id of delta.free
FreeTextureEarly(id) ==
    /\ pc \in {"draw", "free"}
    /\ frame.frees < MaxFree
    /\ SetCache(free_textures(CacheState, id))
    /\ frame' = [frame EXCEPT !.frees = frame.frees + 1,
                               !.freed = frame.freed \cup {id}]
    /\ UNCHANGED overlay
    /\ last' = [op |-> "free", id |-> id]
    /\ UNCHANGED <<pc, vertex_buf, commands>>
FreeTexture(id) ==
    /\ pc = "free"
    /\ frame.frees < MaxFree
    /\ SetCache(free_textures(CacheState, id))
    /\ frame' = [frame EXCEPT !.frees = frame.frees + 1,
                               !.freed = frame.freed \cup {id}]
    /\ UNCHANGED overlay
    /\ last' = [op |-> "free", id |-> id]
    /\ UNCHANGED <<pc, vertex_buf, commands>>

\* delta.free is exhausted: add_overlays returns
EndFrame ==
    /\ pc = "free"
    /\ pc' = "idle"
    /\ host_calls' = {}
    /\ UNCHANGED overlay
    /\ last' = [op |-> "end_frame"]
    /\ UNCHANGED <<vertex_buf, commands, textures, host_textures,
                   double_delete, warned, frame>>

Next ==
    \/ \E level \in 0..CommandsLen : BeginFrame(level)
    \/ \E entry \in SetEntries, created \in {NullTexture} \cup Handles :
           SetTexture(entry, created)
    \/ EndSet
    \/ \E mesh \in FrameMeshes : DrawMesh(mesh)
    \/ DrawCallback
    \/ EndDraw
    \/ \E id \in TextureIds : FreeTexture(id)
    \/ EndFrame

Spec == Init /\ [][Next]_vars

----------------------------------------------------------------------------
(* The first frame alone: the cache is empty when add_overlays is entered *)

NextFrame ==
    \/ \E level \in 0..CommandsLen : last.op = "none" /\ BeginFrame(level)
    \/ \E entry \in SetEntries, created \in {NullTexture} \cup Handles :
           SetTexture(entry, created)
    \/ EndSet
    \/ \E mesh \in FrameMeshes : DrawMesh(mesh)
    \/ DrawCallback
    \/ EndDraw
    \/ \E id \in TextureIds : FreeTexture(id)
    \/ EndFrame

SpecFrame == Init /\ [][NextFrame]_vars

----------------------------------------------------------------------------
(* Frames over one texture id, with the sites that have written a report
   since the process started kept in frame.reported *)

Reports(logs) == {logs[k] : k \in 1..Len(logs)}

InitLog ==
    /\ pc = "idle"
    /\ vertex_buf = InitVertexBuffer
    /\ commands = InitCommands
    /\ textures = [i \in {} |-> NullTexture]
    /\ host_textures = {}
    /\ host_calls = {}
    /\ double_delete = FALSE
    /\ warned = {}
    /\ frame = [sets |-> 0, prims |-> 0, frees |-> 0, failed |-> 0,
                allocs |-> 0, freed |-> {}, reported |-> {}]
    /\ overlay = InitOverlay
    /\ last = [op |-> "none"]

LogBeginFrame ==
    /\ pc = "idle"
    /\ pc' = "set"
    /\ vertex_buf' =
        [vertex_buf EXCEPT
            !.allocated_size_bytes = 0,
            !.index_buffer_allocated_bytes = 0,
            !.index_buffer = [k \in 1..vertex_buf.index_buf_size_u16s |-> Uninit]]
    /\ commands' =
        [commands EXCEPT
            !.draw_command_count = 0,
            !.commands = [k \in 1..CommandsLen |-> HostCommand],
            !.draw_sort_vector.data = <<>>,
            !.draw_sort_vector.length = 0]
    /\ frame' = [frame EXCEPT !.sets = 0, !.prims = 0, !.frees = 0,
                              !.failed = 0, !.freed = {}]
    /\ host_calls' = {}
    /\ UNCHANGED overlay
    /\ last' = [op |-> "begin"]
    /\ UNCHANGED <<textures, host_textures, double_delete, warned>>

LogSetTexture(entry, created) ==
    LET ts == update_textures(CacheState, entry, created)
    IN /\ pc = "set"
       /\ frame.sets < MaxSet
       /\ created \notin host_textures
       /\ SetCache(ts)
       /\ frame' = [frame EXCEPT !.sets = frame.sets + 1,
                                 !.reported = frame.reported \cup Reports(ts.logs)]
       /\ UNCHANGED overlay
       /\ last' = [op |-> "set", entry |-> entry, created |-> created,
                   logs |-> ts.logs]
       /\ UNCHANGED <<pc, vertex_buf, commands>>

LogDrawMesh(mesh) ==
    LET r == draw_egui_mesh(OverlayLayer, textures, mesh,
                            [vertex_buf |-> vertex_buf, commands |-> commands])
        ts == IF r.result \in {"InvalidTexture", "OutOfDrawCommands"}
              THEN warn_once(CacheState, "draw_mesh")
              ELSE CacheState
    IN /\ pc = "draw"
       /\ frame.prims < MaxPrims
       /\ pc' = IF r.panicked THEN "panicked" ELSE "draw"
       /\ vertex_buf' = r.bw.vertex_buf
       /\ commands' = r.bw.commands
       /\ SetCache(ts)
       /\ frame' = [frame EXCEPT !.prims = frame.prims + 1,
                                 !.failed = IF r.result = "Ok" THEN frame.failed
                                            ELSE frame.failed + 1,
                                 !.reported = frame.reported \cup Reports(ts.logs)]
       /\ UNCHANGED overlay
       /\ last' = [op |-> "emit", mesh |-> mesh, result |-> r.result,
                   emits |-> r.emits, logs |-> ts.logs]

LogDrawCallback ==
    LET ts == warn_once(CacheState, "paint_callback")
    IN /\ pc = "draw"
       /\ frame.prims < MaxPrims
       /\ SetCache(ts)
       /\ frame' = [frame EXCEPT !.prims = frame.prims + 1,
                                 !.reported = frame.reported \cup Reports(ts.logs)]
       /\ UNCHANGED overlay
       /\ last' = [op |-> "callback", logs |-> ts.logs]
       /\ UNCHANGED <<pc, vertex_buf, commands>>

NextLog ==
    \/ LogBeginFrame
    \/ \E entry \in {e \in SetEntries : e.id = 1},
           created \in {NullTexture} \cup Handles :
           LogSetTexture(entry, created)
    \/ EndSet
    \/ \E mesh \in FrameMeshes : LogDrawMesh(mesh)
    \/ LogDrawCallback
    \/ EndDraw
    \/ FreeTexture(1)
    \/ EndFrame

SpecLog == InitLog /\ [][NextLog]_vars

----------------------------------------------------------------------------
(* Frames of one mesh of any shape, texture 1 cached and texture 2 not *)

InitEmit ==
    /\ pc = "idle"
    /\ vertex_buf = InitVertexBuffer
    /\ commands = InitCommands
    /\ textures = [i \in {1} |-> 1]
    /\ host_textures = {1}
    /\ host_calls = {}
    /\ double_delete = FALSE
    /\ warned = {}
    /\ frame = NoFrame
    /\ overlay = InitOverlay
    /\ last = [op |-> "none"]

NextEmit ==
    \/ \E level \in 0..CommandsLen : BeginFrame(level)
    \/ EndSet
    \/ \E mesh \in Meshes : frame.prims = 0 /\ DrawMesh(mesh)
    \/ EndDraw
    \/ EndFrame

SpecEmit == InitEmit /\ [][NextEmit]_vars

----------------------------------------------------------------------------
(* draw_egui_mesh called with any layer, texture 1 cached *)

Layers == {OverlayLayer, OverlayLayer + 1}

EmitAtLayer(layer, mesh) ==
    LET r == draw_egui_mesh(layer, textures, mesh,
                            [vertex_buf |-> vertex_buf, commands |-> commands])
    IN /\ pc = "draw"
       /\ frame.prims < MaxPrims
       /\ pc' = IF r.panicked THEN "panicked" ELSE "draw"
       /\ vertex_buf' = r.bw.vertex_buf
       /\ commands' = r.bw.commands
       /\ frame' = [frame EXCEPT !.prims = frame.prims + 1,
                                 !.failed = IF r.result = "Ok" THEN frame.failed
                                            ELSE frame.failed + 1]
       /\ host_calls' = {}
       /\ UNCHANGED overlay
       /\ last' = [op |-> "emit", mesh |-> mesh, result |-> r.result,
                   emits |-> r.emits, layer |-> layer]
       /\ UNCHANGED <<textures, host_textures, double_delete, warned>>

NextLayers ==
    \/ \E level \in 0..CommandsLen : BeginFrame(level)
    \/ EndSet
    \/ \E layer \in Layers, mesh \in {Mesh(1, 3, 3), Mesh(1, MaxVerts, 6)} :
           EmitAtLayer(layer, mesh)
    \/ EndDraw
    \/ EndFrame

SpecLayers == InitEmit /\ [][NextLayers]_vars

----------------------------------------------------------------------------
(* The allocator called directly, with any element count *)

InitAlloc ==
    /\ pc = "alloc"
    /\ vertex_buf = InitVertexBuffer
    /\ commands = InitCommands
    /\ textures = [i \in {} |-> NullTexture]
    /\ host_textures = {}
    /\ host_calls = {}
    /\ double_delete = FALSE
    /\ warned = {}
    /\ frame = NoFrame
    /\ overlay = InitOverlay
    /\ last = [op |-> "none"]

AllocUnchanged ==
    UNCHANGED <<commands, textures, host_textures, host_calls,
                double_delete, warned>>

AllocateVertices(floats_per_vertex, vertex_count) ==
    LET r == allocate_vertices(vertex_buf, floats_per_vertex, vertex_count)
    IN /\ pc = "alloc"
       /\ frame.allocs < MaxAllocs
       /\ frame' = [frame EXCEPT !.allocs = frame.allocs + 1]
       /\ pc' = IF r.panicked THEN "panicked" ELSE pc
       /\ vertex_buf' = r.vb
       /\ UNCHANGED overlay
       /\ last' = [op |-> "allocate_vertices", element_bytes |-> floats_per_vertex * 4,
                   count |-> vertex_count, alloc |-> r.alloc]
       /\ AllocUnchanged

AllocateIndices(count) ==
    LET r == allocate_indices(vertex_buf, count)
    IN /\ pc = "alloc"
       /\ frame.allocs < MaxAllocs
       /\ frame' = [frame EXCEPT !.allocs = frame.allocs + 1]
       /\ pc' = IF r.panicked THEN "panicked" ELSE pc
       /\ vertex_buf' = r.vb
       /\ UNCHANGED overlay
       /\ last' = [op |-> "allocate_indices", element_bytes |-> 2,
                   count |-> count, alloc |-> r.alloc]
       /\ AllocUnchanged

\* the host starts a frame: it resets both arenas and allocates for itself
HostResetArenas(used) ==
    /\ pc = "alloc"
    /\ vertex_buf' =
        [vertex_buf EXCEPT
            !.allocated_size_bytes = IF used THEN HostVertexBytes ELSE 0,
            !.index_buffer_allocated_bytes = IF used THEN HostIndexBytes ELSE 0,
            !.index_buffer = [k \in 1..vertex_buf.index_buf_size_u16s |-> Uninit]]
    /\ frame' = NoFrame
    /\ UNCHANGED overlay
    /\ last' = [op |-> "begin"]
    /\ UNCHANGED pc
    /\ AllocUnchanged

NextAlloc ==
    \/ \E f \in {2, ColoredVertexFloats, FloatsPerVertex}, n \in 0..MaxAllocCount :
           AllocateVertices(f, n)
    \/ \E n \in 0..MaxAllocCount : AllocateIndices(n)
    \/ \E used \in BOOLEAN : HostResetArenas(used)

SpecAlloc == InitAlloc /\ [][NextAlloc]_vars

----------------------------------------------------------------------------
(* The allocator one step at a time: entry, each pass of the while loop,
   commit.  The call in progress is held in `last`. *)

EnterAllocateVerticesCommitFirst(floats_per_vertex, vertex_count) ==
    LET float_count == vertex_count * floats_per_vertex
        start_offset == vertex_buf.allocated_size_bytes
        end_offset == start_offset + float_count * 4
    IN /\ pc = "alloc"
       /\ frame.allocs < MaxAllocs
       /\ frame' = [frame EXCEPT !.allocs = frame.allocs + 1]
       /\ pc' = IF start_offset % 4 # 0 THEN "panicked" ELSE "grow_vertex"
       /\ vertex_buf' = [vertex_buf EXCEPT !.allocated_size_bytes = end_offset]
       /\ UNCHANGED overlay
       /\ last' = [op |-> "enter", element_bytes |-> floats_per_vertex * 4,
                   count |-> vertex_count, start_offset |-> start_offset,
                   end_offset |-> end_offset, length |-> float_count]
       /\ AllocUnchanged
EnterAllocateVertices(floats_per_vertex, vertex_count) ==
    LET float_count == vertex_count * floats_per_vertex
        start_offset == vertex_buf.allocated_size_bytes
        end_offset == start_offset + float_count * 4
    IN /\ pc = "alloc"
       /\ frame.allocs < MaxAllocs
       /\ frame' = [frame EXCEPT !.allocs = frame.allocs + 1]
       /\ pc' = IF start_offset % 4 # 0 THEN "panicked" ELSE "grow_vertex"
       /\ UNCHANGED overlay
       /\ last' = [op |-> "enter", element_bytes |-> floats_per_vertex * 4,
                   count |-> vertex_count, start_offset |-> start_offset,
                   end_offset |-> end_offset, length |-> float_count]
       /\ UNCHANGED vertex_buf
       /\ AllocUnchanged

\* one pass of `while end_offset > capacity`
VertexGrowStep ==
    /\ pc = "grow_vertex"
    /\ last.end_offset > vertex_buf_capacity_bytes(vertex_buf)
    /\ vertex_buf' = vertex_buf_grow(vertex_buf)
    /\ UNCHANGED overlay
    /\ last' = [last EXCEPT !.op = "grow"]
    /\ UNCHANGED <<pc, frame>>
    /\ AllocUnchanged

CommitVertices ==
    /\ pc = "grow_vertex"
    /\ last.end_offset <= vertex_buf_capacity_bytes(vertex_buf)
    /\ vertex_buf' = [vertex_buf EXCEPT !.allocated_size_bytes = last.end_offset]
    /\ pc' = "alloc"
    /\ UNCHANGED overlay
    /\ last' = [op |-> "allocate_vertices", element_bytes |-> last.element_bytes,
                count |-> last.count,
                alloc |-> [byte_offset |-> last.start_offset,
                           length |-> last.length]]
    /\ UNCHANGED frame
    /\ AllocUnchanged

EnterAllocateIndices(count) ==
    LET start_offset == vertex_buf.index_buffer_allocated_bytes
        end_offset == start_offset + count * 2
    IN /\ pc = "alloc"
       /\ frame.allocs < MaxAllocs
       /\ frame' = [frame EXCEPT !.allocs = frame.allocs + 1]
       /\ pc' = IF start_offset % 2 # 0 THEN "panicked" ELSE "grow_index"
       /\ UNCHANGED overlay
       /\ last' = [op |-> "enter", element_bytes |-> 2,
                   count |-> count, start_offset |-> start_offset,
                   end_offset |-> end_offset, length |-> count]
       /\ UNCHANGED vertex_buf
       /\ AllocUnchanged

IndexGrowStep ==
    /\ pc = "grow_index"
    /\ last.end_offset > index_buf_capacity_bytes(vertex_buf)
    /\ vertex_buf' = index_buf_grow(vertex_buf)
    /\ UNCHANGED overlay
    /\ last' = [last EXCEPT !.op = "grow"]
    /\ UNCHANGED <<pc, frame>>
    /\ AllocUnchanged

CommitIndices ==
    /\ pc = "grow_index"
    /\ last.end_offset <= index_buf_capacity_bytes(vertex_buf)
    /\ vertex_buf' =
           [vertex_buf EXCEPT !.index_buffer_allocated_bytes = last.end_offset]
    /\ pc' = "alloc"
    /\ UNCHANGED overlay
    /\ last' = [op |-> "allocate_indices", element_bytes |-> 2,
                count |-> last.count,
                alloc |-> [byte_offset |-> last.start_offset,
                           length |-> last.length]]
    /\ UNCHANGED frame
    /\ AllocUnchanged

NextGrow ==
    \/ \E f \in {ColoredVertexFloats, FloatsPerVertex}, n \in 0..MaxAllocCount :
           EnterAllocateVertices(f, n)
    \/ VertexGrowStep
    \/ CommitVertices
    \/ \E n \in 0..MaxAllocCount : EnterAllocateIndices(n)
    \/ IndexGrowStep
    \/ CommitIndices
    \/ \E used \in BOOLEAN : HostResetArenas(used)

SpecGrow == InitAlloc /\ [][NextGrow]_vars

\* The same calls on arenas of any capacity, an empty one included.  The
\* render thread goes on with the call it is in: once entered, the loop
\* takes its next pass or the commit.
InitGrowAny ==
    /\ pc = "alloc"
    /\ \E v \in {0, InitVertexCapU32s}, i \in {0, InitIndexCapU16s} :
           vertex_buf = [InitVertexBuffer EXCEPT
                            !.buffer_size_u32s = v,
                            !.index_buf_size_u16s = i,
                            !.index_buffer = [k \in 1..i |-> Uninit]]
    /\ commands = InitCommands
    /\ textures = [i \in {} |-> NullTexture]
    /\ host_textures = {}
    /\ host_calls = {}
    /\ double_delete = FALSE
    /\ warned = {}
    /\ frame = NoFrame
    /\ overlay = InitOverlay
    /\ last = [op |-> "none"]

SpecGrowFair ==
    /\ InitGrowAny
    /\ [][NextGrow]_vars
    /\ WF_vars(VertexGrowStep \/ CommitVertices \/ IndexGrowStep \/ CommitIndices)

----------------------------------------------------------------------------
(* bw_vector_push called directly on the sort vector, of any capacity *)

MaxPush == 3

PushValues ==
    {[layer |-> l, index |-> i, command |-> 1] : l \in Layers, i \in 0..1}

InitVector ==
    /\ pc = "vector"
    /\ vertex_buf = InitVertexBuffer
    /\ \E capacity \in {0, InitSortCap, InitSortCap + 1} :
           commands = [InitCommands EXCEPT !.draw_sort_vector.capacity = capacity]
    /\ textures = [i \in {} |-> NullTexture]
    /\ host_textures = {}
    /\ host_calls = {}
    /\ double_delete = FALSE
    /\ warned = {}
    /\ frame = NoFrame
    /\ overlay = InitOverlay
    /\ last = [op |-> "none"]

\* A write past the capacity lands outside the allocation: what the slot
\* then holds is any value.
VectorPush(value) ==
    LET pushed == bw_vector_push(commands.draw_sort_vector, value)
    IN /\ pc = "vector"
       /\ commands.draw_sort_vector.length < MaxPush
       /\ \E held \in IF pushed.length > pushed.capacity
                       THEN PushValues ELSE {value} :
              commands' = [commands EXCEPT !.draw_sort_vector =
                              [pushed EXCEPT !.data[pushed.length] = held]]
       /\ UNCHANGED overlay
       /\ last' = [op |-> "push", value |-> value]
       /\ UNCHANGED <<pc, vertex_buf, textures, host_textures, host_calls,
                      double_delete, warned, frame>>

\* the host empties the vector; its storage stays
VectorClear ==
    /\ pc = "vector"
    /\ commands.draw_sort_vector.length > 0
    /\ commands' = [commands EXCEPT !.draw_sort_vector.data = <<>>,
                                    !.draw_sort_vector.length = 0]
    /\ UNCHANGED overlay
    /\ last' = [op |-> "clear"]
    /\ UNCHANGED <<pc, vertex_buf, textures, host_textures, host_calls,
                   double_delete, warned, frame>>

NextVector ==
    \/ \E value \in PushValues : VectorPush(value)
    \/ VectorClear

SpecVector == InitVector /\ [][NextVector]_vars

----------------------------------------------------------------------------
(* The overlay alone: window messages and UI steps in any order *)

\* the messages that carry a position in the client area
PointerMessages ==
    {WM_MOUSEMOVE, WM_LBUTTONDOWN, WM_LBUTTONUP, WM_RBUTTONDOWN,
     WM_RBUTTONUP}

\* halves of the lparam of WM_SIZE: a side, 0, and one with the sign bit
SizeWords == {0, MaxWindow, U16 - 1}

\* where the pointer is: the top left corner of the client area, or
\* MaxWindow pixels right of it and below it
Clicks == {<<0, 0>>, <<MaxWindow, MaxWindow>>}

\* size of the draw surface: a square one, as the window is
SquareScreen == <<MaxScreen, MaxScreen>>

\* what egui lays out: no window, or one over the surface's top left corner
RectLists ==
    {<<>>,
     <<[min |-> <<F32Zero, F32Zero>>, max |-> <<F32One, F32One>>]>>}

InitOverlayOnly ==
    /\ pc = "overlay"
    /\ vertex_buf = InitVertexBuffer
    /\ commands = InitCommands
    /\ textures = [i \in {} |-> NullTexture]
    /\ host_textures = {}
    /\ host_calls = {}
    /\ double_delete = FALSE
    /\ warned = {}
    /\ frame = NoFrame
    /\ overlay = InitOverlay
    /\ last = [op |-> "none"]

WindowProc(msg, wparam, lo, hi, origin, wants_keyboard_input, key) ==
    /\ pc = "overlay"
    /\ Len(overlay.events) < MaxEvents
    /\ LET r == window_proc(overlay, msg, wparam, lo, hi, origin,
                            wants_keyboard_input, key)
       IN /\ overlay' = r.self
          /\ last' = [op |-> "window_proc", msg |-> msg,
                      lparam |-> <<lo, hi>>, ret |-> r.ret]
    /\ UNCHANGED <<pc, vertex_buf, commands, textures, host_textures,
                   host_calls, double_delete, warned, frame>>

Step(screen_size, rects) ==
    /\ pc = "overlay"
    /\ overlay' = step(overlay, screen_size, rects)
    /\ last' = [op |-> "step"]
    /\ UNCHANGED <<pc, vertex_buf, commands, textures, host_textures,
                   host_calls, double_delete, warned, frame>>

\* each message with the inputs its arm of window_proc reads
NextOverlay ==
    \/ \E lo \in SizeWords, hi \in SizeWords :
          WindowProc(WM_SIZE, 0, lo, hi, 0, FALSE, FALSE)
    \/ \E msg \in PointerMessages, at \in Clicks :
          WindowProc(msg, 0, at[1], at[2], 0, FALSE, FALSE)
    \/ \E at \in Clicks, origin \in {0, 1} :
          WindowProc(WM_MOUSEWHEEL, 0, at[1], at[2], origin, FALSE, FALSE)
    \/ \E msg \in {WM_KEYDOWN, WM_KEYUP},
          wants_keyboard_input \in BOOLEAN, key \in BOOLEAN :
          WindowProc(msg, 0, 0, 0, 0, wants_keyboard_input, key)
    \/ \E wparam \in {AsciiEnd - 1, AsciiEnd},
          wants_keyboard_input \in BOOLEAN :
          WindowProc(WM_CHAR, wparam, 0, 0, 0, wants_keyboard_input, FALSE)
    \/ WindowProc(WM_PAINT, 0, 0, 0, 0, FALSE, FALSE)
    \/ \E rects \in RectLists : Step(SquareScreen, rects)

SpecOverlay == InitOverlayOnly /\ [][NextOverlay]_vars

----------------------------------------------------------------------------
(* The pointer alone: resizes, surface changes and moves to any pixel *)

\* halves of lparam: 0, a side of the window, and the pixel before it
Words == {0, MaxWindow - 1, MaxWindow}

\* sizes of the draw surface: of the window's aspect, wider and narrower
ScreenSizes == {SquareScreen, <<MaxScreen + 1, MaxScreen>>}

NextPointer ==
    \/ \E lo \in Words, hi \in Words :
          WindowProc(WM_SIZE, 0, lo, hi, 0, FALSE, FALSE)
    \/ \E lo \in Words, hi \in Words :
          WindowProc(WM_MOUSEMOVE, 0, lo, hi, 0, FALSE, FALSE)
    \/ \E screen_size \in ScreenSizes : Step(screen_size, <<>>)

SpecPointer == InitOverlayOnly /\ [][NextPointer]_vars

----------------------------------------------------------------------------
(* Properties *)

CeilDiv(a, b) == (a + b - 1) \div b

\* the quad count a mesh of v vertices and i indices needs
Quads(v, i) == Max(CeilDiv(v, 4), CeilDiv(i, 6))

IsAllocate == last.op \in {"allocate_vertices", "allocate_indices"}

\* C1: allocate returns the arena's old allocated offset and a view of
\* exactly n elements, and advances the allocated offset by n times the
\* element size; with n = 0 nothing changes and nothing grows.
C1_AllocateContract ==
    [][/\ (last'.op = "allocate_vertices" =>
            /\ pc' # "panicked"
            /\ last'.alloc.byte_offset = vertex_buf.allocated_size_bytes
            /\ last'.alloc.length * 4 = last'.count * last'.element_bytes
            /\ vertex_buf'.allocated_size_bytes =
                   vertex_buf.allocated_size_bytes
                       + last'.count * last'.element_bytes
            /\ vertex_buf'.index_buffer_allocated_bytes =
                   vertex_buf.index_buffer_allocated_bytes
            /\ (last'.count = 0 => vertex_buf' = vertex_buf))
       /\ (last'.op = "allocate_indices" =>
            /\ pc' # "panicked"
            /\ last'.alloc.byte_offset = vertex_buf.index_buffer_allocated_bytes
            /\ last'.alloc.length = last'.count
            /\ last'.element_bytes = 2
            /\ vertex_buf'.index_buffer_allocated_bytes =
                   vertex_buf.index_buffer_allocated_bytes + last'.count * 2
            /\ vertex_buf'.allocated_size_bytes =
                   vertex_buf.allocated_size_bytes
            /\ (last'.count = 0 => vertex_buf' = vertex_buf))]_vars

\* a zero-length allocation at a non-zero offset of an arena that has grown
C1_Witness ==
    /\ last.op = "allocate_indices"
    /\ last.count = 0
    /\ last.alloc.byte_offset > HostIndexBytes
    /\ vertex_buf.index_buf_heap_allocated = 1

\* C2: after any sequence of vertex and index allocations the vertex
\* arena's allocated offset is a multiple of 4 and the index arena's a
\* multiple of 2, and the alignment assertion has not fired.
C2_OffsetsAligned ==
    /\ vertex_buf.allocated_size_bytes % 4 = 0
    /\ vertex_buf.index_buffer_allocated_bytes % 2 = 0
    /\ pc # "panicked"

\* both arenas have grown and the last allocation started past the host's
C2_Witness ==
    /\ IsAllocate
    /\ frame.allocs = MaxAllocs
    /\ vertex_buf.buffer_size_u32s > InitVertexCapU32s
    /\ vertex_buf.index_buf_size_u16s > InitIndexCapU16s
    /\ vertex_buf.allocated_size_bytes > HostVertexBytes
    /\ vertex_buf.index_buffer_allocated_bytes > HostIndexBytes

\* the (sub-)meshes of the last draw_egui_mesh call that got a draw command
EmittedOk ==
    IF last.op = "emit"
    THEN {k \in 1..Len(last.emits) : last.emits[k].result = "Ok"}
    ELSE {}

\* C3: every emitted (sub-)mesh of v vertices and i indices has
\* allocated_vertex_count = used_vertex_count = 4q and an index allocation
\* of 6q indices, q = max(ceil(v/4), ceil(i/6)).
C3_QuadCounts ==
    /\ pc # "panicked"
    /\ \A k \in EmittedOk :
        LET e == last.emits[k]
            q == Quads(e.vertices_len, Len(e.indices))
            command == commands.commands[e.command]
        IN /\ command.allocated_vertex_count = 4 * q
           /\ command.used_vertex_count = 4 * q
           /\ e.index_alloc.length = 6 * q
           /\ command.index_buffer_offset_bytes = e.index_alloc.byte_offset

\* a mesh of five vertices and no index was emitted as two quads
C3_Witness ==
    \E k \in EmittedOk :
        /\ last.emits[k].vertices_len = 5
        /\ last.emits[k].indices = <<>>
        /\ commands.commands[last.emits[k].command].used_vertex_count = 8

\* C4: of the 6q slots of an emitted mesh's index allocation the first i
\* hold the mesh's indices in order and all the others hold 0 (read when
\* the mesh has just been written: it is the last one of the call).
C4_IndexPadding ==
    \A k \in {n \in EmittedOk : n = Len(last.emits)} :
        LET e == last.emits[k]
            i == Len(e.indices)
            first == e.index_alloc.byte_offset \div 2
        IN \A j \in 0..(6 * Quads(e.vertices_len, i) - 1) :
               vertex_buf.index_buffer[first + j + 1] =
                   IF j < i THEN e.indices[j + 1] ELSE 0

\* a triangle: three indices, not all 0, and three padding slots
C4_Witness ==
    \E k \in EmittedOk :
        /\ last.emits[k].vertices_len = 3
        /\ last.emits[k].indices = <<1, 2, 0>>
        /\ last.emits[k].index_alloc.byte_offset > 0

\* C5: a mesh whose texture id is not in the cache returns InvalidTexture
\* and leaves both arenas (offsets, capacities, content), the draw command
\* count, the commands and the sort vector as they were.
C5_InvalidTextureNoEffect ==
    [][(last'.op = "emit" /\ last'.mesh.texture_id \notin DOMAIN textures) =>
          /\ last'.result = "InvalidTexture"
          /\ vertex_buf' = vertex_buf
          /\ commands' = commands]_vars

\* a mesh with vertices and indices was refused for its texture
C5_Witness ==
    /\ last.op = "emit"
    /\ last.result = "InvalidTexture"
    /\ last.mesh.vertices_len = 3
    /\ Len(last.mesh.indices) = 3

\* C6: a mesh emitted when the draw command count equals the command
\* array's length returns OutOfDrawCommands, and the sort vector and the
\* draw command count stay as they were.
C6_FullListNoEffect ==
    [][(/\ last'.op = "emit"
        /\ last'.mesh.texture_id \in DOMAIN textures
        /\ commands.draw_command_count = Len(commands.commands)) =>
          /\ last'.result = "OutOfDrawCommands"
          /\ commands'.draw_sort_vector = commands.draw_sort_vector
          /\ commands'.draw_command_count = commands.draw_command_count
          /\ commands' = commands]_vars

\* a mesh that is not split found the command list full
C6_Witness ==
    /\ last.op = "emit"
    /\ last.result = "OutOfDrawCommands"
    /\ last.mesh.vertices_len < SplitLimit
    /\ last.mesh.vertices_len > 0
    /\ commands.draw_command_count = CommandsLen

\* C7: whenever emitting a mesh returns an error (InvalidTexture or
\* OutOfDrawCommands) both arenas' allocated offsets are what they were
\* before the call.
C7_FailedEmitKeepsArenas ==
    [][(last'.op = "emit"
          /\ last'.result \in {"InvalidTexture", "OutOfDrawCommands"}) =>
          /\ vertex_buf'.allocated_size_bytes = vertex_buf.allocated_size_bytes
          /\ vertex_buf'.index_buffer_allocated_bytes =
                 vertex_buf.index_buffer_allocated_bytes]_vars

IsSplitEmit ==
    /\ last.op = "emit"
    /\ last.mesh.vertices_len >= SplitLimit
    /\ last.result # "InvalidTexture"

RECURSIVE EmitBytes(_, _)
\* the bytes the given (sub-)mesh records allocate, `per` bytes a quad
EmitBytes(emits, per) ==
    IF emits = <<>> THEN 0
    ELSE Quads(Head(emits).vertices_len, Len(Head(emits).indices)) * per
             + EmitBytes(Tail(emits), per)

C9_FailedMeshKeepsFrame ==
    [][(last'.op = "emit") =>
          /\ commands'.draw_command_count >= commands.draw_command_count
          /\ \A k \in 1..commands.draw_command_count :
                 commands'.commands[k] = commands.commands[k]
          /\ commands'.draw_sort_vector.length >= commands.draw_sort_vector.length
          /\ \A k \in 1..commands.draw_sort_vector.length :
                 commands'.draw_sort_vector.data[k] =
                     commands.draw_sort_vector.data[k]
          /\ (last'.result \in {"InvalidTexture", "OutOfDrawCommands"} =>
                 /\ pc' = "draw"
                 /\ frame'.prims = frame.prims + 1
                 /\ commands' = commands)]_vars

\* a mesh was emitted after another mesh of the same frame had failed
C9_Witness ==
    /\ last.op = "emit"
    /\ last.result = "Ok"
    /\ frame.failed > 0
    /\ commands.draw_command_count > 1

\* C10: the native textures created and not yet deleted are exactly the
\* handles of the cache entries, no two entries hold the same handle, and
\* no handle was deleted that was not live.
C10_OneTexturePerEntry ==
    /\ host_textures = {textures[id] : id \in DOMAIN textures}
    /\ \A a, b \in DOMAIN textures : textures[a] = textures[b] => a = b
    /\ ~double_delete

\* a set without position replaced the texture of an id already cached,
\* with another id cached as well
C10_Witness ==
    /\ last.op = "set"
    /\ ~last.entry.has_pos
    /\ <<"create_texture", last.created>> \in host_calls
    /\ \E h \in Handles : <<"delete_texture", h>> \in host_calls
    /\ DOMAIN textures = TextureIds

\* the payload of a set entry has the length its size asks for
PayloadFits(entry) ==
    4 * entry.pixels_len = 4 * (entry.size[1] * entry.size[2])

\* C11: freeing an id that is not cached changes nothing and calls no host
\* entry point; freeing a cached id removes that entry alone and deletes
\* its native handle, once.
C11_FreeTexture ==
    [][(last'.op = "free") =>
          /\ pc' = pc
          /\ double_delete' = double_delete
          /\ IF last'.id \notin DOMAIN textures
             THEN /\ textures' = textures
                  /\ host_textures' = host_textures
                  /\ host_calls' = {}
             ELSE /\ DOMAIN textures' = DOMAIN textures \ {last'.id}
                  /\ \A i \in DOMAIN textures' : textures'[i] = textures[i]
                  /\ host_calls' = {<<"delete_texture", textures[last'.id]>>}
                  /\ host_textures' = host_textures \ {textures[last'.id]}]_vars

\* an id that is not cached was freed while another id is cached
C11_Witness ==
    /\ last.op = "free"
    /\ last.id \notin DOMAIN textures
    /\ host_calls = {}
    /\ DOMAIN textures # {}

\* C12 as stated: a set entry with a position for an id that is not cached
\* calls no host entry point and leaves the cache; for a cached id the
\* host's update is called on the cached handle and the cache stays.
C12_PartialUpdate ==
    [][(last'.op = "set" /\ last'.entry.has_pos) =>
          /\ textures' = textures
          /\ host_textures' = host_textures
          /\ host_calls' =
                 IF last'.entry.id \in DOMAIN textures
                 THEN {<<"update_texture", textures[last'.entry.id]>>}
                 ELSE {}]_vars

\* C12 as the code has it: the update is called for a cached id only when
\* the payload has 4 * width * height bytes; with any other length, as
\* for an id that is not cached, no host entry point is called.
C12_PartialUpdateChecked ==
    [][(last'.op = "set" /\ last'.entry.has_pos) =>
          /\ textures' = textures
          /\ host_textures' = host_textures
          /\ host_calls' =
                 IF last'.entry.id \in DOMAIN textures /\ PayloadFits(last'.entry)
                 THEN {<<"update_texture", textures[last'.entry.id]>>}
                 ELSE {}]_vars

\* a well-formed partial update of an id that is not cached was skipped
C12_Witness ==
    /\ last.op = "set"
    /\ last.entry.has_pos
    /\ PayloadFits(last.entry)
    /\ last.entry.id \notin DOMAIN textures
    /\ "update_nonexistent" \in warned
    /\ host_calls = {}

\* C13: a set entry, with or without position, whose payload does not have
\* 4 * width * height bytes calls no host entry point and leaves the cache.
C13_BadPayloadSkipped ==
    [][(last'.op = "set" /\ ~PayloadFits(last'.entry)) =>
          /\ host_calls' = {}
          /\ textures' = textures
          /\ host_textures' = host_textures]_vars

\* an update of a cached id was skipped for its payload
C13_Witness ==
    /\ last.op = "set"
    /\ last.entry.has_pos
    /\ ~PayloadFits(last.entry)
    /\ last.entry.id \in DOMAIN textures
    /\ host_calls = {}

\* C14: when create_texture returns null for a set entry without position
\* nothing is inserted: the cache is as before (an id that was absent
\* stays absent) and update_textures goes on with the next entry.
C14_CreateFailureSkipped ==
    [][(/\ last'.op = "set"
        /\ ~last'.entry.has_pos
        /\ PayloadFits(last'.entry)
        /\ last'.created = NullTexture) =>
          /\ host_calls' = {<<"create_texture", NullTexture>>}
          /\ textures' = textures
          /\ host_textures' = host_textures
          /\ pc' = "set"]_vars

\* a creation failed for an id that is not cached, with entries left
C14_Witness ==
    /\ last.op = "set"
    /\ ~last.entry.has_pos
    /\ <<"create_texture", NullTexture>> \in host_calls
    /\ last.entry.id \notin DOMAIN textures
    /\ pc = "set"
    /\ frame.sets < MaxSet

\* C15: in a frame no set entry is applied once a primitive has been
\* processed and no primitive is processed once an id has been freed; a
\* mesh whose texture the frame's own delta created (under SpecFrame the
\* cache holds nothing else) resolves it; and every id of the free list,
\* set in this frame or not, is absent from the cache when the frame ends.
C15_FramePhases ==
    [][/\ (last'.op = "set") => (frame.prims = 0 /\ frame.frees = 0)
       /\ (last'.op \in {"emit", "callback"}) => (frame.frees = 0)
       /\ (last'.op = "emit" /\ last'.mesh.texture_id \in DOMAIN textures) =>
              (last'.result # "InvalidTexture")
       /\ (last'.op = "free") => (DOMAIN textures' \subseteq DOMAIN textures)
       /\ (last'.op = "end_frame") =>
              (\A id \in frame.freed : id \notin DOMAIN textures')]_vars

\* the frame has ended; one of its commands binds a handle that the frame
\* created, a mesh resolved and the free list released afterwards
C15_Witness ==
    /\ pc = "idle"
    /\ last.op = "end_frame"
    /\ frame.freed # {}
    /\ \E k \in 1..commands.draw_command_count :
           /\ commands.commands[k].texture0 # NullTexture
           /\ commands.commands[k].texture0 \notin host_textures

\* positions of the sort vector whose command the overlay has written
OverlayEntries ==
    {k \in 1..commands.draw_sort_vector.length :
        commands.commands[commands.draw_sort_vector.data[k].command].shader_id = 4}

RECURSIVE PowerOfTwoMultiple(_, _)
PowerOfTwoMultiple(c, base) ==
    \/ c = base
    \/ c > base /\ c % 2 = 0 /\ PowerOfTwoMultiple(c \div 2, base)

\* a capacity of `after` elements is what `before` elements become when the
\* offset end_offset is reached: unchanged if it fits, else doubled the
\* least number of times that makes it fit
GrownToFit(before, after, element_bytes, end_offset) ==
    IF end_offset <= before * element_bytes
    THEN after = before
    ELSE /\ after > before
         /\ PowerOfTwoMultiple(after, before)
         /\ after * element_bytes >= end_offset
         /\ (after \div 2) * element_bytes < end_offset

\* C17: each arena's capacity is its original capacity doubled k >= 0
\* times; an allocation leaves the capacity if the offset it commits fits
\* and else doubles it the least number of times for which it fits; no
\* step lowers a capacity.
C17_CapacityDoubles ==
    [][/\ PowerOfTwoMultiple(vertex_buf'.buffer_size_u32s, InitVertexCapU32s)
       /\ PowerOfTwoMultiple(vertex_buf'.index_buf_size_u16s, InitIndexCapU16s)
       /\ vertex_buf'.buffer_size_u32s >= vertex_buf.buffer_size_u32s
       /\ vertex_buf'.index_buf_size_u16s >= vertex_buf.index_buf_size_u16s
       /\ (last'.op = "allocate_vertices" /\ pc' # "panicked") =>
              GrownToFit(vertex_buf.buffer_size_u32s, vertex_buf'.buffer_size_u32s,
                         4, vertex_buf'.allocated_size_bytes)
       /\ (last'.op = "allocate_indices" /\ pc' # "panicked") =>
              GrownToFit(vertex_buf.index_buf_size_u16s,
                         vertex_buf'.index_buf_size_u16s,
                         2, vertex_buf'.index_buffer_allocated_bytes)]_vars

\* the vertex arena has been doubled twice and half of it would not hold
\* the offset the last allocation committed
C17_Witness ==
    /\ last.op = "allocate_vertices"
    /\ last.count > 0
    /\ vertex_buf.buffer_size_u32s = 4 * InitVertexCapU32s
    /\ (vertex_buf.buffer_size_u32s \div 2) * 4 < vertex_buf.allocated_size_bytes

\* C18: a step that raises an arena's capacity leaves its heap flag at 1;
\* no step takes a flag from 1; allocating in one arena changes neither the
\* flag nor the capacity of the other.
C18_HeapFlags ==
    [][/\ (vertex_buf'.buffer_size_u32s > vertex_buf.buffer_size_u32s) =>
              (vertex_buf'.heap_allocated = 1)
       /\ (vertex_buf'.index_buf_size_u16s > vertex_buf.index_buf_size_u16s) =>
              (vertex_buf'.index_buf_heap_allocated = 1)
       /\ (vertex_buf.heap_allocated = 1) => (vertex_buf'.heap_allocated = 1)
       /\ (vertex_buf.index_buf_heap_allocated = 1) =>
              (vertex_buf'.index_buf_heap_allocated = 1)
       /\ (last'.op = "allocate_vertices") =>
              /\ vertex_buf'.index_buf_heap_allocated
                     = vertex_buf.index_buf_heap_allocated
              /\ vertex_buf'.index_buf_size_u16s = vertex_buf.index_buf_size_u16s
       /\ (last'.op = "allocate_indices") =>
              /\ vertex_buf'.heap_allocated = vertex_buf.heap_allocated
              /\ vertex_buf'.buffer_size_u32s = vertex_buf.buffer_size_u32s]_vars

\* the index arena has grown and the vertex arena has not
C18_Witness ==
    /\ last.op = "allocate_indices"
    /\ vertex_buf.index_buf_size_u16s > InitIndexCapU16s
    /\ vertex_buf.index_buf_heap_allocated = 1
    /\ vertex_buf.heap_allocated = 0
    /\ vertex_buf.buffer_size_u32s = InitVertexCapU32s

\* C19: in every state, between two passes of an allocation's grow loop
\* as much as between calls, each arena's committed offset is at most
\* its capacity in bytes.
C19_OffsetWithinCapacity ==
    /\ vertex_buf.allocated_size_bytes <= vertex_buf_capacity_bytes(vertex_buf)
    /\ vertex_buf.index_buffer_allocated_bytes
           <= index_buf_capacity_bytes(vertex_buf)

\* the vertex arena has been doubled by an allocation that needs another
\* doubling before its offset can be committed
C19_Witness ==
    /\ pc = "grow_vertex"
    /\ last.op = "grow"
    /\ last.end_offset > vertex_buf_capacity_bytes(vertex_buf)

\* C20: emitting a mesh of quad count q (not split, emitted with
\* success) advances the vertex arena's offset by 4q vertices of five
\* floats, 80q bytes, and the index arena's offset by 12q bytes.
C20_EmitAdvance ==
    [][(/\ last'.op = "emit"
        /\ last'.result = "Ok"
        /\ last'.mesh.vertices_len < SplitLimit) =>
          LET q == Quads(last'.mesh.vertices_len, Len(last'.mesh.indices))
          IN /\ vertex_buf'.allocated_size_bytes =
                    vertex_buf.allocated_size_bytes
                        + (4 * q) * (ColoredVertexFloats * 4)
             /\ vertex_buf'.index_buffer_allocated_bytes =
                    vertex_buf.index_buffer_allocated_bytes + 12 * q]_vars

\* the sites that wrote a report in the last step
StepReports ==
    IF last.op \in {"set", "emit", "callback"} THEN Reports(last.logs) ELSE {}

\* C21: whatever the number of frames, a site that has written a report
\* writes no other: every report of a step comes from a site that had not
\* reported before, and a step writes at most one report for a site.
C21_ReportedOnce ==
    [][/\ StepReports' \cap frame.reported = {}
       /\ (StepReports' # {}) => (Len(last'.logs) = Cardinality(StepReports'))]_vars

\* C24: each (sub-)mesh emitted with success takes one command slot,
\* the one at the old draw command count, which goes up by one and stays
\* within the list, and appends one sort entry whose index is the sort
\* vector's old length and whose command is that slot; the other slots and
\* the entries already in the sort vector stay as they are.  (Slots are
\* numbered from 1 here: slot count + 1 is the code's commands[count].)
C24_OneSlotOneEntry ==
    [][(last'.op = "emit") =>
          LET ok == {k \in 1..Len(last'.emits) : last'.emits[k].result = "Ok"}
              n == Cardinality(ok)
              count == commands.draw_command_count
              sort == commands.draw_sort_vector
              sort2 == commands'.draw_sort_vector
          IN /\ commands'.draw_command_count = count + n
             /\ commands'.draw_command_count <= Len(commands'.commands)
             /\ sort2.length = sort.length + n
             /\ Len(sort2.data) = sort2.length
             /\ \A k \in 1..sort.length : sort2.data[k] = sort.data[k]
             /\ \A k \in 1..Len(commands.commands) :
                    (k <= count \/ k > count + n) =>
                        (commands'.commands[k] = commands.commands[k])
             /\ \A k \in ok :
                    /\ last'.emits[k].command = count + k
                    /\ commands'.commands[count + k].shader_id = 4
                    /\ sort2.data[sort.length + k] =
                           [layer |-> OverlayLayer,
                            index |-> sort.length + k - 1,
                            command |-> count + k]]_vars

\* two sub-meshes of one split mesh were emitted, each in a slot of its
\* own with a sort entry of its own
C24_Witness ==
    /\ last.op = "emit"
    /\ last.result = "Ok"
    /\ Len(last.emits) = 2
    /\ commands.draw_command_count = 2
    /\ commands.draw_sort_vector.length = 2
    /\ commands.draw_sort_vector.data[2].command = 2

\* C25: when add_overlays has returned, the texture of every draw command
\* it emitted is the handle of a cache entry and has not been given to
\* delete_texture.
C25_CommandsBindLiveHandles ==
    (pc = "idle" /\ last.op = "end_frame") =>
        \A k \in 1..commands.draw_command_count :
            (commands.commands[k].shader_id = 4) =>
                /\ commands.commands[k].texture0 \in host_textures
                /\ \E id \in DOMAIN textures :
                       textures[id] = commands.commands[k].texture0

\* C26: whatever the arena's capacity and the requested size, a call that
\* has entered its grow loop commits its allocation.
C26_AllocateTerminates ==
    (pc \in {"grow_vertex", "grow_index"}) ~> (pc = "alloc")

\* the command slots the overlay has written in this frame
OverlayCommands ==
    {k \in 1..commands.draw_command_count : commands.commands[k].shader_id = 4}

\* the bytes a command's vertices were allocated, and its indices
VertexRangeEnd(c) ==
    c.vertex_buffer_offset_bytes + c.allocated_vertex_count * FloatsPerVertex * 4
IndexRangeEnd(c) ==
    c.index_buffer_offset_bytes + (c.allocated_vertex_count \div 4) * 6 * 2

\* C27: no step of add_overlays lowers an arena's allocated offset; the
\* vertex ranges of the commands emitted in a frame are pairwise disjoint,
\* so are their index ranges, and each range ends at or below its arena's
\* allocated offset.
C27_RangesDisjoint ==
    [][(last'.op # "begin") =>
          /\ vertex_buf'.allocated_size_bytes >= vertex_buf.allocated_size_bytes
          /\ vertex_buf'.index_buffer_allocated_bytes
                 >= vertex_buf.index_buffer_allocated_bytes
          /\ \A a \in OverlayCommands' :
                 LET ca == commands'.commands[a]
                 IN /\ VertexRangeEnd(ca) <= vertex_buf'.allocated_size_bytes
                    /\ IndexRangeEnd(ca) <= vertex_buf'.index_buffer_allocated_bytes
                    /\ \A b \in OverlayCommands' \ {a} :
                           LET cb == commands'.commands[b]
                           IN /\ \/ VertexRangeEnd(ca) <= cb.vertex_buffer_offset_bytes
                                 \/ VertexRangeEnd(cb) <= ca.vertex_buffer_offset_bytes
                              /\ \/ IndexRangeEnd(ca) <= cb.index_buffer_offset_bytes
                                 \/ IndexRangeEnd(cb) <= ca.index_buffer_offset_bytes]_vars

\* two commands of one frame, the second of two quads, after the host's
\* own allocations
C27_Witness ==
    /\ OverlayCommands = {2, 3} \/ OverlayCommands = {1, 2}
    /\ \E a, b \in OverlayCommands :
           /\ a < b
           /\ commands.commands[b].allocated_vertex_count = 8
           /\ commands.commands[b].vertex_buffer_offset_bytes
                  = VertexRangeEnd(commands.commands[a])
           /\ commands.commands[b].index_buffer_offset_bytes
                  = IndexRangeEnd(commands.commands[a])

\* C28: a push on a vector of length n puts the value at index n and
\* makes the length n + 1, keeps the n elements before it, doubles the
\* capacity exactly when n >= capacity, and leaves length <= capacity.
C28_PushContract ==
    [][(last'.op = "push") =>
          LET vec == commands.draw_sort_vector
              pushed == commands'.draw_sort_vector
              n == vec.length
          IN /\ pushed.length = n + 1
             /\ pushed.data[n + 1] = last'.value
             /\ \A k \in 1..n : pushed.data[k] = vec.data[k]
             /\ pushed.capacity =
                    IF n >= vec.capacity THEN 2 * vec.capacity ELSE vec.capacity
             /\ pushed.length <= pushed.capacity]_vars


\* C29: both components of window_size are never 0: a WM_SIZE message with a
\* zero or negative (as i16) width or height leaves window_size as it was,
\* every other WM_SIZE message sets it to the message's size, and no other
\* message and no UI step changes it.
C29_Resize ==
    IF last'.op = "window_proc" /\ last'.msg = WM_SIZE
    THEN LET w == to_i16(last'.lparam[1])
             h == to_i16(last'.lparam[2])
         IN overlay'.window_size =
               IF w <= 0 \/ h <= 0 THEN overlay.window_size ELSE <<w, h>>
    ELSE overlay'.window_size = overlay.window_size

C29_WindowSizeNonZero ==
    /\ [](overlay.window_size[1] # 0 /\ overlay.window_size[2] # 0)
    /\ [][C29_Resize]_vars

\* a WM_SIZE message with a zero or negative side has been ignored after a
\* resize took effect
C29_Witness ==
    /\ last.op = "window_proc"
    /\ last.msg = WM_SIZE
    /\ to_i16(last.lparam[1]) <= 0 \/ to_i16(last.lparam[2]) <= 0
    /\ overlay.window_size = <<MaxWindow, MaxWindow>>


\* C22: for each mouse button on its own, over any sequence of down and up
\* messages: a down message is captured (window_proc returns Some(0) and
\* queues a PointerButton event) exactly when its position lies inside a
\* recorded UI rectangle, and an up message is captured exactly when the
\* most recent down message of the same button was captured.
C22_ButtonCapture ==
    [][(/\ last'.op = "window_proc"
        /\ last'.msg \in {WM_LBUTTONDOWN, WM_LBUTTONUP,
                          WM_RBUTTONDOWN, WM_RBUTTONUP}) =>
          LET button_idx ==
                  IF last'.msg \in {WM_LBUTTONDOWN, WM_LBUTTONUP}
                  THEN 1 ELSE 2
              pressed == last'.msg \in {WM_LBUTTONDOWN, WM_RBUTTONDOWN}
              pos == window_pos_to_egui(overlay, to_i16(last'.lparam[1]),
                                        to_i16(last'.lparam[2]))
              captured == last'.ret = "Some(0)"
          IN /\ captured <=>
                    IF pressed
                    THEN any_contains(overlay.ui_rects, pos)
                    ELSE overlay.recent_down[button_idx] = "captured"
             /\ overlay'.events =
                    IF captured
                    THEN Append(overlay.events,
                                Event("PointerButton", pos, button_idx,
                                      pressed))
                    ELSE overlay.events
             /\ overlay'.captured_mouse_down[3 - button_idx] =
                    overlay.captured_mouse_down[3 - button_idx]]_vars


\* |a - b| <= 2^-20
f32_near(a, b) ==
    f32_le(f32_abs(f32_sub(a, b)), [s |-> 0, m |-> Pow2(23), e |-> 0 - 43])

\* the window's aspect is the surface's, within the 0.001 of the code
SameAspect(self) ==
    LET window_w == f32_from_int(self.window_size[1])
        window_h == f32_from_int(self.window_size[2])
        screen_w == f32_from_int(self.screen_size[1])
        screen_h == f32_from_int(self.screen_size[2])
        screen_window_ratio ==
            f32_div(f32_div(screen_w, screen_h), f32_div(window_w, window_h))
    IN f32_lt(f32_abs(f32_sub(screen_window_ratio, F32One)), F32Milli)

\* the pointer of the last WM_MOUSEMOVE is on a pixel of the window, whose
\* aspect is the surface's
C23_OnWindow ==
    /\ last'.op = "window_proc"
    /\ last'.msg = WM_MOUSEMOVE
    /\ SameAspect(overlay)
    /\ to_i16(last'.lparam[1]) \in 0..overlay.window_size[1]
    /\ to_i16(last'.lparam[2]) \in 0..overlay.window_size[2]

\* the queued position of that pointer, drawn on a render target of the
\* surface's size
C23_Rendered ==
    egui_vertex_to_colored_vertex(
        RenderTarget_new(overlay.screen_size[1], overlay.screen_size[2]),
        overlay'.events[Len(overlay'.events)].pos)

\* (x / window_w, 1 - y / window_h) of that pointer
C23_Expected ==
    <<f32_div(f32_from_int(to_i16(last'.lparam[1])),
              f32_from_int(overlay.window_size[1])),
      f32_sub(F32One,
              f32_div(f32_from_int(to_i16(last'.lparam[2])),
                      f32_from_int(overlay.window_size[2])))>>

\* C23 as stated: when the window's aspect equals the surface's and the
\* render target has the surface's size, a window pixel (x, y) with
\* 0 <= x <= window_w and 0 <= y <= window_h, taken to UI space and from
\* there to render space, lands on (x / window_w, 1 - y / window_h).
C23_RoundTripExact ==
    [][C23_OnWindow => C23_Rendered = C23_Expected]_vars

\* C23: under the same conditions the pixel lands within 2^-20 of
\* (x / window_w, 1 - y / window_h) in both coordinates; the window's top
\* left corner lands on (0, 1) itself.
C23_RoundTripNear ==
    [][C23_OnWindow =>
          /\ f32_near(C23_Rendered[1], C23_Expected[1])
          /\ f32_near(C23_Rendered[2], C23_Expected[2])
          /\ last'.lparam = <<0, 0>> =>
                C23_Rendered = <<F32Zero, F32One>>]_vars

\* a pointer on a pixel inside a window of the surface's aspect and of
\* another size than the surface has been queued
C23_Witness ==
    /\ last.op = "window_proc"
    /\ last.msg = WM_MOUSEMOVE
    /\ SameAspect(overlay)
    /\ overlay.window_size # overlay.screen_size
    /\ to_i16(last.lparam[1]) \in 1..(overlay.window_size[1] - 1)
    /\ to_i16(last.lparam[2]) \in 1..(overlay.window_size[2] - 1)
    /\ overlay.events # <<>>

====
